---- MODULE Spec2Model ----
(***************************************************************************)
(* State-machine model of the two vector stores of rag-foundation:         *)
(*   SemanticVectorStore (vector_store/semantic_vector_store.py)  "dense"  *)
(*   SparseVectorStore   (vector_store/sparse_vector_store.py)    "sparse" *)
(* One store instance is modelled at a time (kind is fixed by Init).  The  *)
(* node map is an insertion-ordered Python dict, modelled as a sequence of *)
(* nodes with pairwise distinct ids.  The embedding model and the          *)
(* tokenizer are deterministic black boxes, modelled as tables.  Floating  *)
(* point is modelled as exact fixed point with one extra value NaN.        *)
(* base.py (BaseVectorStore) and node.py are not part of the sources at    *)
(* hand; the snapshot load/save and the inherited delete of the sparse     *)
(* store follow the written specification.                                 *)
(***************************************************************************)
EXTENDS Integers, Sequences, FiniteSets, TLC

VARIABLES
    kind,            \* "dense" or "sparse": which class the instance is
    stable_argsort,  \* whether this build's np.argsort keeps ties in order
    force_index,     \* BaseVectorStore.force_index
    node_dict,       \* BaseVectorStore.node_dict, in insertion order
    corpus_size,     \* SparseVectorStore.corpus_size
    avgdl,           \* SparseVectorStore.avgdl, a reduced fraction
    doc_freqs,       \* SparseVectorStore.doc_freqs
    idf,             \* SparseVectorStore.idf
    doc_len,         \* SparseVectorStore.doc_len
    nd,              \* SparseVectorStore.nd
    saved_file,      \* content of the node snapshot file (rows = nodes)
    metadata_file,   \* sidecar file: <<>> when absent, else <<content>>
    last_change,     \* history: the last call that changed store or files
    call             \* the call in progress and its outcome, or Idle

vars ==
    <<kind, stable_argsort, force_index, node_dict, corpus_size, avgdl,
      doc_freqs, idf, doc_len, nd, saved_file, metadata_file, last_change,
      call>>

(***************************************************************************)
(* Bounds of the model.                                                    *)
(***************************************************************************)
MaxK ==
    2

MaxAdd ==
    2

MaxBatch ==
    2

(***************************************************************************)
(* Generic helpers.                                                        *)
(***************************************************************************)
Range(s) ==
    {s[i] : i \in 1..Len(s)}

Reverse(s) ==
    [i \in 1..Len(s) |-> s[Len(s) + 1 - i]]

Take(s, n) ==
    SubSeq(s, 1, IF n < Len(s) THEN n ELSE Len(s))

Min(a, b) ==
    IF a < b THEN a ELSE b

RECURSIVE GCD(_, _)
GCD(a, b) ==
    IF b = 0 THEN a ELSE GCD(b, a % b)

RECURSIVE SumSeq(_)
SumSeq(s) ==
    IF Len(s) = 0 THEN 0 ELSE s[1] + SumSeq(Tail(s))

SeqsUpTo(S, n) ==
    UNION {[1..m -> S] : m \in 0..n}

(***************************************************************************)
(* Inputs.  A node is a TextNode: id_, text, metadata, embedding (<<>> is  *)
(* None).  Ids "0" and "1" are the string-encoded positions the scripts    *)
(* assign; "a" is an id that is not a stringified integer.                 *)
(***************************************************************************)
Ids ==
    {"0", "1", "a"}

None ==
    <<>>

TextNode(i, t, m, e) ==
    [id_ |-> i, text |-> t, metadata |-> m, embedding |-> e]

DenseNodes ==
    {TextNode("0", "cat", "m", None), TextNode("0", "cat", "m", <<0, 0>>),
     TextNode("1", "dog", "m2", None), TextNode("1", "dog", "m", <<0, 1>>),
     TextNode("a", "cat", "m", <<3, 4>>)}

SparseNodes ==
    {TextNode("0", "cat", "m", None), TextNode("0", "", "m", None),
     TextNode("1", "cat", "m", None), TextNode("1", "cat dog", "m2", None),
     TextNode("a", "cat", "m", None)}

InputNodes(k) ==
    IF k = "dense" THEN DenseNodes ELSE SparseNodes

QueryTexts ==
    {"cat", "dog"}

(***************************************************************************)
(* External collaborators, deterministic black boxes.                      *)
(***************************************************************************)
\* TOKENIZER.tokenize(text)
Tokenize(text) ==
    CASE text = ""         -> <<>>
      [] text = "cat"      -> <<"cat">>
      [] text = "dog"      -> <<"dog">>
      [] text = "bird"     -> <<"bird">>
      [] text = "cat dog"  -> <<"cat", "dog">>
      [] text = "cat bird" -> <<"cat", "bird">>
      [] text = "cat cat"  -> <<"cat", "cat">>
      [] OTHER             -> <<text>>

\* embed_model.encode(text).tolist(): integer vectors with integer norms
_get_text_embedding(text) ==
    CASE text = "cat" -> <<1, 0>>
      [] text = "dog" -> <<3, 4>>
      [] OTHER        -> <<0, 1>>

(***************************************************************************)
(* The node map: a Python dict keeps insertion order; assigning to an      *)
(* existing key keeps its position; del removes the entry.                 *)
(***************************************************************************)
DictHas(d, k) ==
    \E i \in 1..Len(d) : d[i].id_ = k

DictGet(d, k) ==
    d[CHOOSE i \in 1..Len(d) : d[i].id_ = k]

\* a variant that keeps the node already stored under the id (setdefault)
DictSet_KeepFirst(d, n) ==
    IF DictHas(d, n.id_) THEN d ELSE Append(d, n)

DictSet(d, n) ==
    IF DictHas(d, n.id_)
    THEN [i \in 1..Len(d) |-> IF d[i].id_ = n.id_ THEN n ELSE d[i]]
    ELSE Append(d, n)

DictDel(d, k) ==
    SelectSeq(d, LAMBDA n : n.id_ # k)

DictKeys(d) ==
    [i \in 1..Len(d) |-> d[i].id_]

IdsOf(nodes) ==
    [i \in 1..Len(nodes) |-> nodes[i].id_]

(***************************************************************************)
(* Numbers.  A float is an integer count of 1/Scale units, or NaN.  The    *)
(* only non-finite values the two engines can produce are 0/0 = NaN and    *)
(* x/0 = inf inside get_scores (numpy warns and continues).                *)
(***************************************************************************)
NaN ==
    -1000000000

Scale ==
    10000

\* np.log(num / den) in 1/Scale units, for the ratios _calculate_idf forms
\* (num = 2N + 2, den = 2 df + 1 with 1 <= df <= N <= 5).
LogRatio(num, den) ==
    CASE <<num, den>> = <<4, 3>>   -> 2877
      [] <<num, den>> = <<6, 3>>   -> 6931
      [] <<num, den>> = <<6, 5>>   -> 1823
      [] <<num, den>> = <<8, 3>>   -> 9808
      [] <<num, den>> = <<8, 5>>   -> 4700
      [] <<num, den>> = <<8, 7>>   -> 1335
      [] <<num, den>> = <<10, 3>>  -> 12040
      [] <<num, den>> = <<10, 5>>  -> 6931
      [] <<num, den>> = <<10, 7>>  -> 3567
      [] <<num, den>> = <<10, 9>>  -> 1054
      [] <<num, den>> = <<12, 3>>  -> 13863
      [] <<num, den>> = <<12, 5>>  -> 8755
      [] <<num, den>> = <<12, 7>>  -> 5390
      [] <<num, den>> = <<12, 9>>  -> 2877
      [] <<num, den>> = <<12, 11>> -> 870

\* a / b as a reduced fraction (b > 0)
Frac(a, b) ==
    LET g == GCD(a, b) IN [n |-> a \div g, d |-> b \div g]

(***************************************************************************)
(* SparseVectorStore: the derived BM25 index.                              *)
(***************************************************************************)
\* the field defaults, also the values _initialize_bm25_assets resets to
EmptyDict ==
    [w \in {} |-> 0]

EmptyAssets ==
    [corpus_size |-> 0, avgdl |-> Frac(0, 1), doc_freqs |-> <<>>,
     idf |-> EmptyDict, doc_len |-> <<>>, nd |-> 0]

\* the per-document dict: word -> number of occurrences
Frequencies(document) ==
    [w \in Range(document) |->
        Cardinality({k \in 1..Len(document) : document[k] = w})]

\* ln((N - df + 0.5) / (df + 0.5) + 1) = ln((2N + 2) / (2 df + 1))
_calculate_idf(doc_count, size) ==
    LogRatio((2 * (size - doc_count) + 1) + (2 * doc_count + 1),
             2 * doc_count + 1)

\* _initialize(corpus) on an instance whose derived fields are a0: the loop
\* appends to doc_len and doc_freqs and counts corpus_size up; nd and
\* num_doc are locals.  exc is the exception that escapes ("none" when it
\* returns): num_doc / corpus_size divides by zero before avgdl and idf are
\* assigned.
_initialize(a0, corpus) ==
    LET lens     == [i \in 1..Len(corpus) |-> Len(corpus[i])]
        freqs    == [i \in 1..Len(corpus) |-> Frequencies(corpus[i])]
        words    == UNION {DOMAIN freqs[i] : i \in 1..Len(corpus)}
        ndw      == [w \in words |->
                       Cardinality({i \in 1..Len(corpus) : w \in DOMAIN freqs[i]})]
        num_doc  == SumSeq(lens)
        size     == a0.corpus_size + Len(corpus)
        looped   == [a0 EXCEPT !.doc_len = a0.doc_len \o lens,
                               !.doc_freqs = a0.doc_freqs \o freqs,
                               !.corpus_size = size]
    IN  IF size = 0
        THEN [exc |-> "ZeroDivisionError", assets |-> looped]
        ELSE [exc |-> "none",
              assets |-> [looped EXCEPT
                  !.avgdl = Frac(num_doc, size),
                  !.idf = [w \in words |-> _calculate_idf(ndw[w], size)]]]

\* a variant that collects the pool's results out of order (last first)
Corpus_Unordered(d) ==
    [i \in 1..Len(d) |-> Tokenize(d[Len(d) + 1 - i].text)]

\* _tokenize_text on the list of node texts, in node map order
Corpus(d) ==
    [i \in 1..Len(d) |-> Tokenize(d[i].text)]

\* _initialize_bm25_assets on an instance whose derived fields are a: reset
\* them, rebuild over the whole node map, dump the sidecar.  An exception
\* leaves the fields as the loop left them and the old sidecar.
_initialize_bm25_assets(a, d, sidecar) ==
    LET r == _initialize(EmptyAssets, Corpus(d))
    IN  [exc |-> r.exc,
         assets |-> r.assets,
         sidecar |-> IF r.exc = "none" THEN <<r.assets>> ELSE sidecar]

\* a variant that does not read avgdl back, leaving the field's default
_load_from_json_NoAvgdl(sidecar) ==
    LET content == sidecar[1]
    IN  [corpus_size |-> content.corpus_size,
         avgdl       |-> Frac(0, 1),
         doc_freqs   |-> content.doc_freqs,
         idf         |-> content.idf,
         doc_len     |-> content.doc_len,
         nd          |-> content.nd]

\* _load_from_json: the six fields, verbatim from the sidecar
_load_from_json(sidecar) ==
    LET content == sidecar[1]
    IN  [corpus_size |-> content.corpus_size,
         avgdl       |-> content.avgdl,
         doc_freqs   |-> content.doc_freqs,
         idf         |-> content.idf,
         doc_len     |-> content.doc_len,
         nd          |-> content.nd]

(***************************************************************************)
(* SparseVectorStore: scoring and ranking.  `a` is the record of the six   *)
(* derived fields the store holds when the query runs.                     *)
(***************************************************************************)
\* dict.get(q) or 0
GetOr0(dict, q) ==
    IF q \in DOMAIN dict THEN dict[q] ELSE 0

\* The algorithm parameters, in twentieths: k1 = 1.2, b = 0.75, delta = 0.25
k1 ==
    24

b ==
    15

delta ==
    5

\* One query term's addend for document i (1-based):
\*   ctd = q_freq / (1 - b + b * doc_len / avgdl)
\*   idf * (k1 + 1) * (ctd + delta) / (k1 + ctd + delta)
\* With avgdl = n / d the quotient ctd is p / q0 for the integers below,
\* and (ctd + delta) / (k1 + ctd + delta) is
\*   (20 p + delta q0) / (20 p + (k1 + delta) q0).
\* avgdl = 0 gives doc_len / avgdl = NaN for an empty document (the addend
\* is NaN even when idf is 0) and inf otherwise (ctd = 0).
Addend(a, q, i) ==
    LET f   == GetOr0(a.doc_freqs[i], q)
        dl  == a.doc_len[i]
        w   == GetOr0(a.idf, q)
        p   == IF a.avgdl.n = 0 THEN 0 ELSE 20 * f * a.avgdl.n
        q0  == IF a.avgdl.n = 0 THEN 1
               ELSE (20 - b) * a.avgdl.n + b * dl * a.avgdl.d
    IN  IF a.avgdl.n = 0 /\ dl = 0
        THEN NaN
        ELSE (((w * (k1 + 20)) \div 20) * (20 * p + delta * q0))
                 \div (20 * p + (k1 + delta) * q0)

\* x + y on floats
FAdd(x, y) ==
    IF x = NaN \/ y = NaN THEN NaN ELSE x + y

RECURSIVE DocScore(_, _, _)
DocScore(a, tokens, i) ==
    IF Len(tokens) = 0
    THEN 0
    ELSE FAdd(Addend(a, tokens[1], i), DocScore(a, Tail(tokens), i))

\* get_scores(query): one score per indexed document
get_scores(a, query) ==
    [i \in 1..a.corpus_size |-> DocScore(a, Tokenize(query), i)]

\* np.argsort(scores): zero-based positions in ascending score order, NaN
\* last.  The order of equal scores is the build's: an insertion sort keeps
\* them in position order, the vectorised sort does not.
SortsBefore(scores, stable, i, j) ==
    \/ scores[i] # NaN /\ scores[j] = NaN
    \/ scores[i] # NaN /\ scores[j] # NaN /\ scores[i] < scores[j]
    \/ scores[i] = scores[j] /\ (IF stable THEN i < j ELSE i > j)

ArgSort(scores, stable) ==
    [r \in 1..Len(scores) |->
        (CHOOSE i \in 1..Len(scores) :
            Cardinality({j \in 1..Len(scores) :
                            SortsBefore(scores, stable, j, i)}) = r - 1) - 1]

\* str(doc_id)
Str(n) ==
    <<"0", "1", "2", "3", "4", "5", "6", "7", "8", "9">>[n + 1]

VectorStoreQueryResult(nodes, similarities, ids) ==
    [nodes |-> nodes, similarities |-> similarities, ids |-> ids]

NoResult ==
    VectorStoreQueryResult(<<>>, <<>>, <<>>)

\* a variant that takes the node at the ranked position of the node map
\* (list(node_dict.values())[doc_id]) instead of looking str(doc_id) up
SparseQuery_ByPosition(d, a, stable, query, top_k) ==
    LET scores  == get_scores(a, query)
        doc_ids == Take(Reverse(ArgSort(scores, stable)), top_k)
    IN  IF \E r \in 1..Len(doc_ids) : doc_ids[r] + 1 > Len(d)
        THEN [exc |-> "IndexError", result |-> NoResult]
        ELSE [exc |-> "none",
              result |-> VectorStoreQueryResult(
                  [r \in 1..Len(doc_ids) |-> d[doc_ids[r] + 1]],
                  [r \in 1..Len(doc_ids) |-> scores[doc_ids[r] + 1]],
                  doc_ids)]

\* SparseVectorStore.query: exc = "KeyError" when a ranked position,
\* stringified, is not a key of the node map.
SparseQuery(d, a, stable, query, top_k) ==
    LET scores  == get_scores(a, query)
        doc_ids == Take(Reverse(ArgSort(scores, stable)), top_k)
    IN  IF \E r \in 1..Len(doc_ids) : ~DictHas(d, Str(doc_ids[r]))
        THEN [exc |-> "KeyError", result |-> NoResult]
        ELSE [exc |-> "none",
              result |-> VectorStoreQueryResult(
                  [r \in 1..Len(doc_ids) |-> DictGet(d, Str(doc_ids[r]))],
                  [r \in 1..Len(doc_ids) |-> scores[doc_ids[r] + 1]],
                  doc_ids)]

(***************************************************************************)
(* SemanticVectorStore: cosine similarity and ranking.                     *)
(***************************************************************************)
Dot(x, y) ==
    SumSeq([i \in 1..Len(x) |-> x[i] * y[i]])

\* np.linalg.norm: the vectors of the model have integer norms
Norm(x) ==
    LET s == Dot(x, x) IN CHOOSE r \in 0..s : r * r <= s /\ s < (r + 1) * (r + 1)

\* dproduct_arr / norm_arr, element i: 0 / 0 is NaN (numpy warns, goes on)
CosSim(qembed, dembed) ==
    LET norm == Norm(qembed) * Norm(dembed)
    IN  IF norm = 0 THEN NaN ELSE (Dot(dembed, qembed) * Scale) \div norm

\* t[0] < u[0] on floats: every comparison with NaN is False
KeyLt(t, u) ==
    t[1] # NaN /\ u[1] # NaN /\ t[1] < u[1]

\* list.sort's count_run: the length of the run the list starts with, and
\* whether it is a strictly descending one
RECURSIVE RunEnd(_, _, _)
RunEnd(a, n, descending) ==
    IF n < Len(a) /\ (KeyLt(a[n + 1], a[n]) <=> descending)
    THEN RunEnd(a, n + 1, descending)
    ELSE n

\* list.sort's binarysort: where pivot goes among the sorted a[1..r]
RECURSIVE InsertionPoint(_, _, _, _)
InsertionPoint(a, pivot, l, r) ==
    IF l < r
    THEN LET p == (l + r) \div 2
         IN  IF KeyLt(pivot, a[p + 1])
             THEN InsertionPoint(a, pivot, l, p)
             ELSE InsertionPoint(a, pivot, p + 1, r)
    ELSE l

RECURSIVE BinarySort(_, _)
BinarySort(a, start) ==
    IF start >= Len(a)
    THEN a
    ELSE LET pivot == a[start + 1]
             l     == InsertionPoint(a, pivot, 0, start)
         IN  BinarySort(SubSeq(a, 1, l) \o <<pivot>> \o SubSeq(a, l + 1, start)
                            \o SubSeq(a, start + 2, Len(a)),
                        start + 1)

\* sorted(tups, key=lambda t: t[0], reverse=True): reverse, sort ascending
\* and stably (one run, then binary insertion), reverse again
SortedReverse(tups) ==
    LET a    == Reverse(tups)
        desc == Len(a) >= 2 /\ KeyLt(a[2], a[1])
        n    == IF Len(a) < 2 THEN Len(a) ELSE RunEnd(a, 2, desc)
        run  == IF desc THEN Reverse(SubSeq(a, 1, n)) ELSE SubSeq(a, 1, n)
    IN  Reverse(BinarySort(run \o SubSeq(a, n + 1, Len(a)), n))

\* _calculate_similarity: (result_similarities, result_ids)
_calculate_similarity(query_embedding, doc_embeddings, doc_ids, similarity_top_k) ==
    LET tups == [i \in 1..Len(doc_ids) |->
                    <<CosSim(query_embedding, doc_embeddings[i]), doc_ids[i]>>]
        sorted_tups == Take(SortedReverse(tups), similarity_top_k)
    IN  [similarities |-> [i \in 1..Len(sorted_tups) |-> sorted_tups[i][1]],
         ids          |-> [i \in 1..Len(sorted_tups) |-> sorted_tups[i][2]]]

\* SemanticVectorStore.query
DenseQuery(d, query, top_k) ==
    LET query_embedding == _get_text_embedding(query)
        doc_embeddings  == [i \in 1..Len(d) |-> d[i].embedding]
        doc_ids         == DictKeys(d)
        top == _calculate_similarity(query_embedding, doc_embeddings, doc_ids, top_k)
    IN  IF Len(doc_embeddings) = 0
        THEN [exc |-> "none", result |-> NoResult]
        ELSE [exc |-> "none",
              result |-> VectorStoreQueryResult(
                  [r \in 1..Len(top.ids) |-> DictGet(d, top.ids[r])],
                  top.similarities,
                  top.ids)]

\* query of the instance's class
Query(k, d, a, stable, query, top_k) ==
    IF k = "dense" THEN DenseQuery(d, query, top_k)
    ELSE SparseQuery(d, a, stable, query, top_k)

\* a variant that does not pass top_k on, so every query runs with its
\* default of 3
batch_query_DefaultK(k, d, a, stable, texts, top_k) ==
    LET rs == [i \in 1..Len(texts) |-> Query(k, d, a, stable, texts[i], 3)]
    IN  IF \E i \in 1..Len(rs) : rs[i].exc # "none"
        THEN [exc |-> "KeyError", results |-> <<>>]
        ELSE [exc |-> "none", results |-> [i \in 1..Len(rs) |-> rs[i].result]]

\* batch_query: [self.query(q, top_k) for q in query]; the first exception
\* raised by a query escapes
batch_query(k, d, a, stable, texts, top_k) ==
    LET rs == [i \in 1..Len(texts) |-> Query(k, d, a, stable, texts[i], top_k)]
    IN  IF \E i \in 1..Len(rs) : rs[i].exc # "none"
        THEN [exc |-> rs[CHOOSE i \in 1..Len(rs) :
                            /\ rs[i].exc # "none"
                            /\ \A j \in 1..(i - 1) : rs[j].exc = "none"].exc,
              results |-> <<>>]
        ELSE [exc |-> "none", results |-> [i \in 1..Len(rs) |-> rs[i].result]]

(***************************************************************************)
(* Operations on the store state.  Each returns the new values; the        *)
(* actions below assign them.                                              *)
(***************************************************************************)
Assets ==
    [corpus_size |-> corpus_size, avgdl |-> avgdl, doc_freqs |-> doc_freqs,
     idf |-> idf, doc_len |-> doc_len, nd |-> nd]

\* a variant that lets the KeyError of a miss escape
get_NoCatch(d, text_id) ==
    IF DictHas(d, text_id)
    THEN [exc |-> "none", node |-> <<DictGet(d, text_id)>>]
    ELSE [exc |-> "KeyError", node |-> None]

\* get(text_id): node is <<the node>>, or None after the KeyError of a
\* miss is caught and logged
get(d, text_id) ==
    IF DictHas(d, text_id)
    THEN [exc |-> "none", node |-> <<DictGet(d, text_id)>>]
    ELSE [exc |-> "none", node |-> None]

\* a variant that embeds every node, replacing an embedding it came with
RECURSIVE DenseStore_AlwaysEmbed(_, _)
DenseStore_AlwaysEmbed(d, nodes) ==
    IF Len(nodes) = 0
    THEN d
    ELSE LET node == nodes[1]
             kept == [node EXCEPT !.embedding = _get_text_embedding(node.text)]
         IN  DenseStore_AlwaysEmbed(DictSet(d, kept), Tail(nodes))

\* the loop of SemanticVectorStore.add: embed the nodes that lack an
\* embedding, store every node under its id
RECURSIVE DenseStore(_, _)
DenseStore(d, nodes) ==
    IF Len(nodes) = 0
    THEN d
    ELSE LET node == nodes[1]
             kept == IF node.embedding = None
                     THEN [node EXCEPT !.embedding = _get_text_embedding(node.text)]
                     ELSE node
         IN  DenseStore(DictSet(d, kept), Tail(nodes))

\* the loop of SparseVectorStore.add
RECURSIVE SparseStore(_, _)
SparseStore(d, nodes) ==
    IF Len(nodes) = 0
    THEN d
    ELSE SparseStore(DictSet(d, nodes[1]), Tail(nodes))

\* _update_csv: the snapshot file is rewritten in full from the node map,
\* one row per node
_update_csv(d) ==
    [i \in 1..Len(d) |-> <<d[i].id_, d[i].text, d[i].metadata, d[i].embedding>>]

\* _load_from_csv: one node per row, in file order
_load_from_csv(rows) ==
    [i \in 1..Len(rows) |-> TextNode(rows[i][1], rows[i][2], rows[i][3], rows[i][4])]

\* SemanticVectorStore.add
DenseAdd(d, nodes) ==
    LET d2 == DenseStore(d, nodes)
    IN  [exc |-> "none", node_dict |-> d2, saved_file |-> _update_csv(d2),
         ids |-> IdsOf(nodes)]

\* a variant that indexes only the nodes being added (incremental update)
SparseAdd_OnlyNew(a, d, nodes, sidecar) ==
    LET d2 == SparseStore(d, nodes)
        r  == _initialize_bm25_assets(a, SparseStore(<<>>, nodes), sidecar)
    IN  [exc |-> r.exc, node_dict |-> d2, saved_file |-> _update_csv(d2),
         assets |-> r.assets, sidecar |-> r.sidecar,
         ids |-> IF r.exc = "none" THEN IdsOf(nodes) ELSE <<>>]

\* SparseVectorStore.add: store, rewrite the snapshot, rebuild the index
SparseAdd(a, d, nodes, sidecar) ==
    LET d2 == SparseStore(d, nodes)
        r  == _initialize_bm25_assets(a, d2, sidecar)
    IN  [exc |-> r.exc, node_dict |-> d2, saved_file |-> _update_csv(d2),
         assets |-> r.assets, sidecar |-> r.sidecar,
         ids |-> IF r.exc = "none" THEN IdsOf(nodes) ELSE <<>>]

\* a variant that rewrites the snapshot but never removes the node
delete_NoRemove(d, csv, node_id) ==
    IF DictHas(d, node_id)
    THEN [exc |-> "none", node_dict |-> d, saved_file |-> _update_csv(d),
          wrote |-> TRUE]
    ELSE [exc |-> "none", node_dict |-> d, saved_file |-> csv, wrote |-> FALSE]

\* a variant that rewrites the snapshot after the if, on both branches
delete_AlwaysPersist(d, csv, node_id) ==
    [exc |-> "none", node_dict |-> DictDel(d, node_id),
     saved_file |-> _update_csv(DictDel(d, node_id)), wrote |-> TRUE]

\* SemanticVectorStore.delete(node_id)
delete(d, csv, node_id) ==
    IF DictHas(d, node_id)
    THEN [exc |-> "none", node_dict |-> DictDel(d, node_id),
          saved_file |-> _update_csv(DictDel(d, node_id)), wrote |-> TRUE]
    ELSE [exc |-> "none", node_dict |-> d, saved_file |-> csv, wrote |-> FALSE]

\* BaseVectorStore.delete(node_id), which the sparse store inherits: it
\* removes the node if present and rewrites the snapshot, and is a no-op
\* otherwise.  It knows nothing of the derived index.
base_delete(d, csv, node_id) ==
    IF DictHas(d, node_id)
    THEN [exc |-> "none", node_dict |-> DictDel(d, node_id),
          saved_file |-> _update_csv(DictDel(d, node_id)), wrote |-> TRUE]
    ELSE [exc |-> "none", node_dict |-> d, saved_file |-> csv, wrote |-> FALSE]

\* _setup_store: the node map a new instance starts with.  The snapshot is
\* loaded when it has rows and force_index is off; otherwise the instance
\* holds the nodes it was given.
_setup_store(force, supplied, csv) ==
    IF ~force /\ Len(csv) > 0 THEN _load_from_csv(csv) ELSE supplied

\* a variant without the check that the node map is non-empty
SparseInit_NoGuard(d, force, sidecar) ==
    IF Len(sidecar) > 0 /\ ~force
    THEN [exc |-> "none", assets |-> _load_from_json(sidecar),
          sidecar |-> sidecar]
    ELSE _initialize_bm25_assets(EmptyAssets, d, sidecar)

\* SparseVectorStore.__init__ after the base constructor
SparseInit(d, force, sidecar) ==
    IF Len(d) > 0
    THEN IF Len(sidecar) > 0 /\ ~force
         THEN [exc |-> "none", assets |-> _load_from_json(sidecar),
               sidecar |-> sidecar]
         ELSE _initialize_bm25_assets(EmptyAssets, d, sidecar)
    ELSE [exc |-> "none", assets |-> EmptyAssets, sidecar |-> sidecar]

(***************************************************************************)
(* The state machine.  Calls are synchronous and serialised: a call runs   *)
(* to completion (one action), the caller takes the outcome (Return), and  *)
(* only then is the next call made.                                        *)
(***************************************************************************)
Call(op, exc, wrote, id, nodes, texts, top_k, node, ids, results) ==
    [op |-> op, exc |-> exc, wrote |-> wrote, id |-> id, nodes |-> nodes,
     texts |-> texts, top_k |-> top_k, node |-> node, ids |-> ids,
     results |-> results]

Idle ==
    Call("idle", "none", FALSE, "", <<>>, <<>>, 0, None, <<>>, <<>>)

\* node maps a constructor is given, per class
SuppliedMaps(k) ==
    IF k = "dense"
    THEN {<<>>, <<TextNode("0", "cat", "m", <<1, 0>>)>>}
    ELSE {<<>>, <<TextNode("0", "cat", "m", None),
                  TextNode("1", "cat dog", "m", None)>>}

\* snapshot files found on disk before the first instance is made
InitSnapshots(k) ==
    {_update_csv(d) : d \in SuppliedMaps(k)}

Init ==
    /\ kind \in {"dense", "sparse"}
    /\ stable_argsort \in (IF kind = "sparse" THEN BOOLEAN ELSE {TRUE})
    /\ force_index = FALSE
    /\ saved_file \in InitSnapshots(kind)
    /\ node_dict = _setup_store(FALSE, <<>>, saved_file)
    /\ LET s == IF kind = "sparse"
                THEN SparseInit(node_dict, FALSE, <<>>)
                ELSE [exc |-> "none", assets |-> EmptyAssets, sidecar |-> <<>>]
       IN  /\ corpus_size = s.assets.corpus_size
           /\ avgdl = s.assets.avgdl
           /\ doc_freqs = s.assets.doc_freqs
           /\ idf = s.assets.idf
           /\ doc_len = s.assets.doc_len
           /\ nd = s.assets.nd
           /\ metadata_file = s.sidecar
    /\ last_change = "construct"
    /\ call = Idle

SetAssets(a) ==
    /\ corpus_size' = a.corpus_size
    /\ avgdl' = a.avgdl
    /\ doc_freqs' = a.doc_freqs
    /\ idf' = a.idf
    /\ doc_len' = a.doc_len
    /\ nd' = a.nd

KeepAssets ==
    UNCHANGED <<corpus_size, avgdl, doc_freqs, idf, doc_len, nd>>

\* a new instance is constructed over the files the last one left
Construct ==
    /\ call = Idle
    /\ \E force \in BOOLEAN, supplied \in SuppliedMaps(kind) :
        LET d == _setup_store(force, supplied, saved_file)
            s == IF kind = "sparse"
                 THEN SparseInit(d, force, metadata_file)
                 ELSE [exc |-> "none", assets |-> EmptyAssets,
                       sidecar |-> metadata_file]
        IN  /\ force_index' = force
            /\ node_dict' = d
            /\ SetAssets(s.assets)
            /\ metadata_file' = s.sidecar
            /\ call' = Call("construct", s.exc, FALSE, "", supplied, <<>>, 0,
                            None, <<>>, <<>>)
    /\ last_change' = "construct"
    /\ UNCHANGED <<kind, stable_argsort, saved_file>>

Add ==
    /\ call = Idle
    /\ \E nodes \in SeqsUpTo(InputNodes(kind), MaxAdd) :
        IF kind = "dense"
        THEN LET r == DenseAdd(node_dict, nodes)
             IN  /\ node_dict' = r.node_dict
                 /\ saved_file' = r.saved_file
                 /\ KeepAssets
                 /\ UNCHANGED metadata_file
                 /\ last_change' = "add"
                 /\ call' = Call("add", r.exc, TRUE, "", nodes, <<>>, 0,
                                 None, r.ids, <<>>)
        ELSE LET r == SparseAdd(Assets, node_dict, nodes, metadata_file)
             IN  /\ node_dict' = r.node_dict
                 /\ saved_file' = r.saved_file
                 /\ SetAssets(r.assets)
                 /\ metadata_file' = r.sidecar
                 /\ last_change' = IF r.exc = "none" THEN "add" ELSE "add_raised"
                 /\ call' = Call("add", r.exc, TRUE, "", nodes, <<>>, 0,
                                 None, r.ids, <<>>)
    /\ UNCHANGED <<kind, stable_argsort, force_index>>

Get ==
    /\ call = Idle
    /\ \E text_id \in Ids :
        LET r == get(node_dict, text_id)
        IN  call' = Call("get", r.exc, FALSE, text_id, <<>>, <<>>, 0,
                         r.node, <<>>, <<>>)
    /\ KeepAssets
    /\ UNCHANGED <<kind, stable_argsort, force_index, node_dict, saved_file,
                   metadata_file, last_change>>

Delete ==
    /\ call = Idle
    /\ \E node_id \in Ids :
        LET r == IF kind = "dense"
                 THEN delete(node_dict, saved_file, node_id)
                 ELSE base_delete(node_dict, saved_file, node_id)
        IN  /\ node_dict' = r.node_dict
            /\ saved_file' = r.saved_file
            /\ last_change' = IF r.wrote THEN "delete" ELSE last_change
            /\ call' = Call("delete", r.exc, r.wrote, node_id, <<>>, <<>>, 0,
                            None, <<>>, <<>>)
    /\ KeepAssets
    /\ UNCHANGED <<kind, stable_argsort, force_index, metadata_file>>

QueryOp ==
    /\ call = Idle
    /\ \E query \in QueryTexts, top_k \in 0..MaxK :
        LET r == Query(kind, node_dict, Assets, stable_argsort, query, top_k)
        IN  call' = Call("query", r.exc, FALSE, "", <<>>, <<query>>, top_k,
                         None, <<>>,
                         IF r.exc = "none" THEN <<r.result>> ELSE <<>>)
    /\ KeepAssets
    /\ UNCHANGED <<kind, stable_argsort, force_index, node_dict, saved_file,
                   metadata_file, last_change>>

BatchQuery ==
    /\ call = Idle
    /\ \E texts \in SeqsUpTo(QueryTexts, MaxBatch), top_k \in 0..MaxK :
        LET r == batch_query(kind, node_dict, Assets, stable_argsort, texts, top_k)
        IN  call' = Call("batch_query", r.exc, FALSE, "", <<>>, texts, top_k,
                         None, <<>>, r.results)
    /\ KeepAssets
    /\ UNCHANGED <<kind, stable_argsort, force_index, node_dict, saved_file,
                   metadata_file, last_change>>

\* the caller takes the outcome of the call
Return ==
    /\ call # Idle
    /\ call' = Idle
    /\ KeepAssets
    /\ UNCHANGED <<kind, stable_argsort, force_index, node_dict, saved_file,
                   metadata_file, last_change>>

Next ==
    \/ Construct
    \/ Add
    \/ Get
    \/ Delete
    \/ QueryOp
    \/ BatchQuery
    \/ Return

Spec ==
    Init /\ [][Next]_vars

(***************************************************************************)
(* Properties.                                                             *)
(***************************************************************************)
\* everything an instance holds and the two files behind it
store ==
    <<node_dict, corpus_size, avgdl, doc_freqs, idf, doc_len, nd, saved_file,
      metadata_file>>

\* m is n as the caller handed it in: same id, text and metadata
SameNode(m, n) ==
    m.id_ = n.id_ /\ m.text = n.text /\ m.metadata = n.metadata

\* C1: in both stores, when add([n]) returns, get(n.id) yields n (same id,
\* text and metadata); and whatever get yields for an id stays what it
\* yields over every step of the same instance that is neither an add of
\* that id nor a delete of it.
C1_AddGetRoundTrip ==
    [][/\ (call'.op = "add" /\ call'.exc = "none" /\ Len(call'.nodes) = 1) =>
            LET n == call'.nodes[1]
                g == get(node_dict', n.id_)
            IN  /\ g.exc = "none"
                /\ Len(g.node) = 1
                /\ SameNode(g.node[1], n)
       /\ \A i \in Ids :
            (/\ get(node_dict, i).node # None
             /\ call'.op # "construct"
             /\ ~(call'.op = "add" /\ \E k \in 1..Len(call'.nodes) :
                                         call'.nodes[k].id_ = i)
             /\ ~(call'.op = "delete" /\ call'.id = i))
            => get(node_dict', i) = get(node_dict, i)]_vars

\* after an add, a get finds the node stored with metadata "m2"
C1_Witness ==
    /\ call.op = "get"
    /\ call.node # None
    /\ call.node[1].metadata = "m2"
    /\ last_change = "add"

\* C2: in both stores add([n]) returns, delete(n.id) returns and leaves no
\* node under n.id, and a get of an id that is not in the node map returns
\* None; none of the three raises.
C2_AddDeleteGet ==
    /\ (call.op = "add" /\ Len(call.nodes) = 1) => call.exc = "none"
    /\ call.op = "delete" =>
         /\ call.exc = "none"
         /\ ~DictHas(node_dict, call.id)
         /\ get(node_dict, call.id) = [exc |-> "none", node |-> None]
    /\ (call.op = "get" /\ ~DictHas(node_dict, call.id)) =>
         /\ call.exc = "none"
         /\ call.node = None

\* a get reports Not Found for an id whose node the last change deleted
C2_Witness ==
    /\ call.op = "get"
    /\ call.node = None
    /\ last_change = "delete"
    /\ Len(node_dict) > 0

\* C3: a query on a store whose node map is empty does not raise and
\* returns a result with no nodes, no scores and no ids.
C3_EmptyQuery ==
    (call.op = "query" /\ Len(node_dict) = 0) =>
        /\ call.exc = "none"
        /\ call.results = <<NoResult>>

\* s[1] >= s[2] >= ... on floats (a comparison with NaN is False)
NonIncreasing(s) ==
    \A i \in 1..(Len(s) - 1) : s[i] # NaN /\ s[i + 1] # NaN /\ s[i] >= s[i + 1]

\* C4: every query returns; its three sequences have length
\* min(top_k, number of nodes) and its scores are non-increasing.
C4_ResultShape ==
    call.op = "query" =>
        /\ call.exc = "none"
        /\ LET r == call.results[1]
               n == Min(call.top_k, Len(node_dict))
           IN  /\ Len(r.nodes) = n
               /\ Len(r.similarities) = n
               /\ Len(r.ids) = n
               /\ NonIncreasing(r.similarities)

\* the ids are "0".."n-1" in insertion order
Positional(d) ==
    \A i \in 1..Len(d) : d[i].id_ = Str(i - 1)

\* the index a from-scratch rebuild over node map d yields
Rebuilt(d) ==
    _initialize(EmptyAssets, [i \in 1..Len(d) |-> Tokenize(d[i].text)]).assets

\* C5: in a sparse store whose ids are "0".."n-1" in insertion order and
\* whose last change was an add, a query returns, and the node at each rank
\* is the node at the ranked corpus position, whose text earns the score
\* returned at that rank.
C5_PositionalIds ==
    (/\ kind = "sparse"
     /\ call.op = "query"
     /\ last_change = "add"
     /\ Positional(node_dict))
    => /\ call.exc = "none"
       /\ LET r == call.results[1]
              scores == get_scores(Rebuilt(node_dict), call.texts[1])
          IN  \A k \in 1..Len(r.ids) :
                /\ r.ids[k] + 1 \in 1..Len(node_dict)
                /\ r.nodes[k] = node_dict[r.ids[k] + 1]
                /\ r.similarities[k] = scores[r.ids[k] + 1]

\* a positional two-node sparse store returns both nodes, the second
\* document first
C5_Witness ==
    /\ kind = "sparse"
    /\ call.op = "query"
    /\ last_change = "add"
    /\ Positional(node_dict)
    /\ call.exc = "none"
    /\ Len(call.results[1].ids) = 2
    /\ call.results[1].ids[1] = 1
    /\ call.results[1].similarities[1] > call.results[1].similarities[2]

\* C6: when the last change to a sparse store was an add that returned, a
\* new instance constructed with force_index off loads idf, avgdl and
\* doc_len from the sidecar, and they equal those of a from-scratch rebuild
\* over the node map it loaded.
C6_SidecarRoundTrip ==
    [][(/\ kind = "sparse"
        /\ last_change = "add"
        /\ call'.op = "construct"
        /\ ~force_index')
       => /\ node_dict' = node_dict
          /\ Len(node_dict') > 0
          /\ idf' = Rebuilt(node_dict').idf
          /\ avgdl' = Rebuilt(node_dict').avgdl
          /\ doc_len' = Rebuilt(node_dict').doc_len]_vars

\* an instance that loaded the sidecar the last add wrote for two documents
C6_Witness ==
    /\ kind = "sparse"
    /\ call.op = "construct"
    /\ ~force_index
    /\ Len(metadata_file) = 1
    /\ corpus_size = 2
    /\ avgdl = Frac(3, 2)
    /\ _update_csv(node_dict) = saved_file

\* C7: batch_query returns, in order, exactly what query returns for each
\* text with the same top_k (and raises iff one of those queries raises),
\* and leaves the store and its files as they were.
C7_BatchQuery ==
    [][call'.op = "batch_query" =>
        LET single(i) == Query(kind, node_dict, Assets, stable_argsort,
                               call'.texts[i], call'.top_k)
            n == Len(call'.texts)
        IN  /\ UNCHANGED store
            /\ (call'.exc = "none") <=> (\A i \in 1..n : single(i).exc = "none")
            /\ call'.exc = "none" =>
                 /\ Len(call'.results) = n
                 /\ \A i \in 1..n : call'.results[i] = single(i).result]_vars

\* a batch of two different texts answered with two different results
C7_Witness ==
    /\ call.op = "batch_query"
    /\ call.exc = "none"
    /\ Len(call.texts) = 2
    /\ call.texts[1] # call.texts[2]
    /\ Len(call.results) = 2
    /\ call.results[1] # call.results[2]
    /\ Len(call.results[1].ids) = 2

\* C8: get of an id that is not in the node map returns None, does not
\* raise, and leaves the node map, the derived index and the files as they
\* were.
C8_GetMissing ==
    [][(call'.op = "get" /\ ~DictHas(node_dict, call'.id)) =>
        /\ call'.exc = "none"
        /\ call'.node = None
        /\ UNCHANGED store]_vars

\* a miss on a sparse store that holds other nodes
C8_Witness ==
    /\ call.op = "get"
    /\ call.node = None
    /\ kind = "sparse"
    /\ Len(node_dict) > 0
    /\ corpus_size > 0

\* C9 as claimed, on the dense store: delete returns and rewrites the
\* snapshot whether or not the id was present.
C9_DeleteAlwaysPersists ==
    (kind = "dense" /\ call.op = "delete") =>
        /\ call.exc = "none"
        /\ call.wrote

\* C9 as amended: on the dense store delete(id) does not raise; when the id
\* is present it removes exactly that node, keeps every other node and the
\* order, and rewrites the snapshot from the new node map; when the id is
\* absent the node map is unchanged and the snapshot is not rewritten.
C9_DeleteFrame ==
    [][(kind = "dense" /\ call'.op = "delete") =>
        /\ call'.exc = "none"
        /\ ~DictHas(node_dict', call'.id)
        /\ \A i \in Ids \ {call'.id} :
             get(node_dict', i) = get(node_dict, i)
        /\ DictKeys(node_dict') =
             SelectSeq(DictKeys(node_dict), LAMBDA i : i # call'.id)
        /\ IF DictHas(node_dict, call'.id)
           THEN /\ call'.wrote
                /\ saved_file' = _update_csv(node_dict')
           ELSE /\ ~call'.wrote
                /\ node_dict' = node_dict
                /\ saved_file' = saved_file]_vars

\* a dense delete of an absent id while the store holds nodes
C9_Witness ==
    /\ kind = "dense"
    /\ call.op = "delete"
    /\ ~call.wrote
    /\ Len(node_dict) > 0
    /\ last_change = "delete"

\* C10: a sparse add that rebuilds the index over an empty node map
\* returns, leaving corpus_size 0 and avgdl 0.
C10_EmptyRebuild ==
    (kind = "sparse" /\ call.op = "add" /\ Len(node_dict) = 0) =>
        /\ call.exc = "none"
        /\ corpus_size = 0
        /\ avgdl = Frac(0, 1)

\* C11: a dense query returns, no returned similarity is NaN, and a
\* returned node whose embedding has zero norm (or every returned node, when
\* the query embedding has zero norm) has similarity exactly 0.
C11_ZeroNormGuard ==
    (kind = "dense" /\ call.op = "query") =>
        /\ call.exc = "none"
        /\ LET r == call.results[1]
               qembed == _get_text_embedding(call.texts[1])
           IN  \A k \in 1..Len(r.ids) :
                 /\ r.similarities[k] # NaN
                 /\ (Norm(qembed) = 0 \/ Norm(r.nodes[k].embedding) = 0)
                      => r.similarities[k] = 0

\* the query's tokens that occur somewhere in the indexed corpus
InCorpus(a, tokens) ==
    SelectSeq(tokens, LAMBDA q : q \in DOMAIN a.idf)

\* C12: in a sparse store, for every query text, the per-document scores
\* equal the scores of the same query with every token that occurs nowhere
\* in the indexed corpus removed (an unseen term adds 0 to every document).
C12_UnseenTerm ==
    kind = "sparse" =>
        \A query \in QueryTexts \cup {"cat dog", "cat bird", "bird"} :
            get_scores(Assets, query) =
                [i \in 1..corpus_size |->
                    DocScore(Assets, InCorpus(Assets, Tokenize(query)), i)]

\* C13: in the result of a sparse query that returns, two documents with
\* equal (non-NaN) total score appear in corpus position order: the one at
\* the lower position is ranked first.
C13_SparseTies ==
    (kind = "sparse" /\ call.op = "query" /\ call.exc = "none") =>
        LET r == call.results[1]
        IN  \A x \in 1..Len(r.ids), y \in 1..Len(r.ids) :
              (/\ r.ids[x] < r.ids[y]
               /\ r.similarities[x] # NaN
               /\ r.similarities[x] = r.similarities[y])
              => x < y

(***************************************************************************)
(* Ranking of a larger dense store.  A SemanticVectorStore is constructed  *)
(* over a snapshot of up to MaxDocs nodes that carry embeddings, and is    *)
(* then only queried.                                                      *)
(***************************************************************************)
MaxDocs ==
    7

\* embeddings found in the snapshot: a zero vector and two unit vectors
RankEmbeddings ==
    {<<0, 0>>, <<1, 0>>, <<0, 1>>}

\* the node maps such a snapshot yields: ids "0".."n-1" in file order
RankMaps ==
    {[i \in 1..Len(e) |-> TextNode(Str(i - 1), "cat", "m", e[i])] :
        e \in SeqsUpTo(RankEmbeddings, MaxDocs)}

RankInit ==
    /\ kind = "dense"
    /\ stable_argsort = TRUE
    /\ force_index = FALSE
    /\ node_dict \in RankMaps
    /\ saved_file = _update_csv(node_dict)
    /\ corpus_size = EmptyAssets.corpus_size
    /\ avgdl = EmptyAssets.avgdl
    /\ doc_freqs = EmptyAssets.doc_freqs
    /\ idf = EmptyAssets.idf
    /\ doc_len = EmptyAssets.doc_len
    /\ nd = EmptyAssets.nd
    /\ metadata_file = <<>>
    /\ last_change = "construct"
    /\ call = Idle

RankNext ==
    \/ QueryOp
    \/ Return

RankSpec ==
    RankInit /\ [][RankNext]_vars

\* the rank of node id i in a query result (0 when it is not returned)
RankOf(r, i) ==
    IF \E x \in 1..Len(r.ids) : r.ids[x] = i
    THEN CHOOSE x \in 1..Len(r.ids) : r.ids[x] = i
    ELSE 0

\* C14: in the result of a dense query, of two stored nodes with equal
\* (non-NaN) cosine similarity to the query the one earlier in the node
\* map's iteration order is ranked earlier, and if the later one is
\* returned so is the earlier one.
C14_DenseTies ==
    (kind = "dense" /\ call.op = "query" /\ call.exc = "none") =>
        LET r == call.results[1]
            qembed == _get_text_embedding(call.texts[1])
            sim(i) == CosSim(qembed, node_dict[i].embedding)
        IN  \A i \in 1..Len(node_dict), j \in 1..Len(node_dict) :
              (i < j /\ sim(i) # NaN /\ sim(i) = sim(j)
                     /\ RankOf(r, node_dict[j].id_) # 0)
              => /\ RankOf(r, node_dict[i].id_) # 0
                 /\ RankOf(r, node_dict[i].id_) < RankOf(r, node_dict[j].id_)

\* C15 as claimed: a query on a sparse store whose ids deviate from
\* "0".."n-1" in insertion order completes without raising.
C15_SilentOnDeviation ==
    (/\ kind = "sparse"
     /\ call.op = "query"
     /\ last_change = "add"
     /\ ~Positional(node_dict)
     /\ call.top_k >= 1)
    => call.exc = "none"

\* C15 as amended: on a sparse store whose last change was an add and whose
\* ids deviate from "0".."n-1" in insertion order, a query raises KeyError
\* only if some position 0..n-1, stringified, is not an id of the node map
\* (and it does raise when top_k covers every position and one is
\* missing); when it returns, each rank holds the node stored under the
\* stringified ranked position p with the score the document at position p
\* earned, and this is a node other than that document wherever the id at
\* position p is not str(p).
C15_Deviation ==
    (/\ kind = "sparse"
     /\ call.op = "query"
     /\ last_change = "add"
     /\ ~Positional(node_dict))
    => LET n == Len(node_dict)
           missing == {p \in 0..(n - 1) : ~DictHas(node_dict, Str(p))}
           scores == get_scores(Rebuilt(node_dict), call.texts[1])
       IN  /\ call.exc \in {"none", "KeyError"}
           /\ call.exc = "KeyError" => missing # {}
           /\ (missing # {} /\ call.top_k >= n) => call.exc = "KeyError"
           /\ call.exc = "none" =>
                LET r == call.results[1]
                IN  \A k \in 1..Len(r.ids) :
                      LET p == r.ids[k]
                      IN  /\ p \in 0..(n - 1)
                          /\ r.nodes[k].id_ = Str(p)
                          /\ r.nodes[k] = DictGet(node_dict, Str(p))
                          /\ r.similarities[k] = scores[p + 1]
                          /\ node_dict[p + 1].id_ # Str(p)
                               => r.nodes[k] # node_dict[p + 1]

\* ids "1", "0" inserted in that order: the query returns, and the node at
\* the first rank is not the document whose score it carries
C15_Witness ==
    /\ kind = "sparse"
    /\ call.op = "query"
    /\ last_change = "add"
    /\ DictKeys(node_dict) = <<"1", "0">>
    /\ call.exc = "none"
    /\ Len(call.results[1].ids) = 2
    /\ call.results[1].nodes[1] # node_dict[call.results[1].ids[1] + 1]
    /\ call.results[1].similarities[1] > call.results[1].similarities[2]

\* C16: when a sparse add returns, corpus_size, avgdl, doc_freqs, doc_len
\* and idf are those of a from-scratch build over the whole current node
\* map in map order (one entry per node, its token count and its word
\* counts), whatever the index held before; the sidecar holds the same.
C16_FullReindex ==
    (kind = "sparse" /\ call.op = "add" /\ call.exc = "none") =>
        LET n == Len(node_dict)
            tokens(i) == Tokenize(node_dict[i].text)
        IN  /\ corpus_size = n
            /\ doc_len = [i \in 1..n |-> Len(tokens(i))]
            /\ doc_freqs = [i \in 1..n |-> Frequencies(tokens(i))]
            /\ avgdl = Frac(SumSeq(doc_len), n)
            /\ idf = Rebuilt(node_dict).idf
            /\ Assets = Rebuilt(node_dict)
            /\ metadata_file = <<Assets>>

\* an add that overwrites an id of a two-node store (the same id is given
\* twice, the other node was stored before) and leaves a two-document index
C16_Witness ==
    /\ kind = "sparse"
    /\ call.op = "add"
    /\ call.exc = "none"
    /\ Len(call.nodes) = 2
    /\ call.nodes[1].id_ = call.nodes[2].id_
    /\ call.nodes[1].text # call.nodes[2].text
    /\ Len(node_dict) = 2
    /\ corpus_size = 2
    /\ doc_len = <<1, 2>>

\* C17 as claimed: constructing a sparse store over any node map, an empty
\* one included, loads the index verbatim from the sidecar when the sidecar
\* exists and force_index is off, and otherwise computes it fresh from the
\* node map and writes it to the sidecar.
C17_CachePolicyAnyMap ==
    [][(kind = "sparse" /\ call'.op = "construct") =>
        /\ call'.exc = "none"
        /\ IF Len(metadata_file) > 0 /\ ~force_index'
           THEN /\ Assets' = metadata_file[1]
                /\ metadata_file' = metadata_file
           ELSE /\ Assets' = Rebuilt(node_dict')
                /\ metadata_file' = <<Rebuilt(node_dict')>>]_vars

\* C17 as amended: constructing a sparse store does not raise; over a
\* non-empty node map it loads the index verbatim from the sidecar when the
\* sidecar exists and force_index is off, and otherwise computes it fresh
\* from the node map and writes it to the sidecar; over an empty node map
\* it neither reads nor writes the sidecar and the index keeps its defaults.
C17_CachePolicy ==
    [][(kind = "sparse" /\ call'.op = "construct") =>
        /\ call'.exc = "none"
        /\ IF Len(node_dict') = 0
           THEN /\ Assets' = EmptyAssets
                /\ metadata_file' = metadata_file
           ELSE IF Len(metadata_file) > 0 /\ ~force_index'
           THEN /\ Assets' = metadata_file[1]
                /\ metadata_file' = metadata_file
           ELSE /\ Assets' = Rebuilt(node_dict')
                /\ corpus_size' = Len(node_dict')
                /\ metadata_file' = <<Rebuilt(node_dict')>>]_vars

\* a sparse store constructed with force_index off over an empty node map
\* while a sidecar of an earlier two-document corpus exists
C17_Witness ==
    /\ kind = "sparse"
    /\ call.op = "construct"
    /\ ~force_index
    /\ Len(node_dict) = 0
    /\ Len(metadata_file) = 1
    /\ metadata_file[1].corpus_size = 2
    /\ corpus_size = 0

\* C18: a dense add returns; for each id among the added nodes the node
\* stored under it is the last one given for that id, with the embedding it
\* arrived with if it had one and embed(text) if it had none; every node
\* not named by the add is untouched; and so every node of the node map has
\* an embedding in every state, in particular when a query runs.
C18_DenseAddEmbeds ==
    [][kind = "dense" =>
        /\ \A i \in 1..Len(node_dict) : node_dict[i].embedding # None
        /\ \A i \in 1..Len(node_dict') : node_dict'[i].embedding # None
        /\ call'.op = "add" =>
             /\ call'.exc = "none"
             /\ \A k \in 1..Len(call'.nodes) :
                  LET n == call'.nodes[k]
                      last == \A j \in (k + 1)..Len(call'.nodes) :
                                 call'.nodes[j].id_ # n.id_
                  IN  last =>
                        /\ DictHas(node_dict', n.id_)
                        /\ SameNode(DictGet(node_dict', n.id_), n)
                        /\ DictGet(node_dict', n.id_).embedding =
                             IF n.embedding = None
                             THEN _get_text_embedding(n.text)
                             ELSE n.embedding
             /\ \A i \in 1..Len(node_dict) :
                  (\A k \in 1..Len(call'.nodes) :
                      call'.nodes[k].id_ # node_dict[i].id_)
                  => node_dict'[i] = node_dict[i]]_vars

\* an add of one node without an embedding and one with an embedding that
\* differs from what embed gives for its text; both are stored, the first
\* with the computed embedding, the second with its own
C18_Witness ==
    /\ kind = "dense"
    /\ call.op = "add"
    /\ Len(call.nodes) = 2
    /\ call.nodes[1].id_ # call.nodes[2].id_
    /\ call.nodes[1].embedding = None
    /\ call.nodes[2].embedding # None
    /\ call.nodes[2].embedding # _get_text_embedding(call.nodes[2].text)
    /\ DictGet(node_dict, call.nodes[1].id_).embedding =
         _get_text_embedding(call.nodes[1].text)
    /\ DictGet(node_dict, call.nodes[2].id_).embedding = call.nodes[2].embedding

\* C19: in every state of a sparse store corpus_size, the length of
\* doc_len, the length of doc_freqs and the number of nodes in the node map
\* are all equal.
C19_IndexSizes ==
    kind = "sparse" =>
        /\ corpus_size = Len(doc_len)
        /\ corpus_size = Len(doc_freqs)
        /\ corpus_size = Len(node_dict)

\* C20: in both stores a query made after a delete was the last change
\* returns, and every node it returns is the node the node map holds under
\* that node's id (no deleted node is returned).
C20_QueryAfterDelete ==
    (call.op = "query" /\ last_change = "delete") =>
        /\ call.exc = "none"
        /\ \A k \in 1..Len(call.results[1].nodes) :
             LET m == call.results[1].nodes[k]
             IN  DictHas(node_dict, m.id_) /\ DictGet(node_dict, m.id_) = m

====
